---- MODULE Spec2Model ----
(***************************************************************************)
(* easy-process: run / run_with_stdin of src/src/lib.rs, together with the *)
(* collaborators they drive: the POSIX command-line tokenizer, the child   *)
(* process with its three standard streams over bounded pipes, and the     *)
(* checked_command result conversion.                                      *)
(*                                                                         *)
(* Text is a sequence of one-character strings, a byte stream a sequence   *)
(* of integers 0..255, decoded text a sequence of code points.             *)
(***************************************************************************)
EXTENDS Integers, Sequences, FiniteSets, TLC

(* ------------------------------ bounds --------------------------------- *)

\* longest command string explored by the tokenization specification
MaxCmdLen == 5
\* most bytes the caller's function writes to the child's stdin
MaxIn == 4
\* most bytes a child writes to stdout / stderr on its own account
MaxOut == 2
MaxErr == 1
\* pipe buffer capacities, in bytes
StdinCap == 1
StdoutCap == 1
StderrCap == 1

(* ------------------------------ alphabets ------------------------------ *)

\* characters of a command string: a letter, blank, the two quotes,
\* backslash and a shell metacharacter
Chars == {"a", " ", "'", "\"", "\\", "|"}

\* bytes on the streams: ASCII 'A', and the two bytes of U+00E9 (C3 A9),
\* each of which is an invalid sequence when it stands alone
Bytes == {65, 195, 169}

Statuses == {"exit(0)", "exit(1)", "signal(9)"}
NoStatus == "none"

SpawnErrors == {"NotFound", "PermissionDenied"}
WaitErrors == {"Interrupted"}
CallerErrors == {"AppError", "Io(BrokenPipe)"}
NoErr == "none"

\* what a started program does with its streams: emit writes to stdout and
\* stderr and never reads, cat copies stdin to stdout byte by byte, rev
\* reads stdin to the end and then writes it backwards
Programs == {"emit", "cat", "rev"}

RECURSIVE SeqsUpTo(_, _)
SeqsUpTo(S, n) ==
    IF n = 0 THEN {<<>>}
    ELSE LET shorter == SeqsUpTo(S, n - 1)
         IN  shorter \cup {Append(s, x) : s \in shorter, x \in S}

RECURSIVE Reverse(_)
Reverse(s) == IF s = <<>> THEN <<>> ELSE Append(Reverse(Tail(s)), Head(s))

\* command strings of the run specification: empty, blank, one token, two
RunCommands == {<<>>, <<" ">>, <<"a">>, <<"a", " ", "'", "|", " ", "a", "'">>}

(* ------------------------------ tokenizer ------------------------------ *)

IsSpace(c) == c = " "

\* parse_posix: unquoted blanks separate tokens, single quotes are literal,
\* double quotes allow backslash escapes, an unquoted backslash escapes the
\* next character.  mode: "delim" (between tokens), "word", "squote",
\* "dquote"; cur is the token being built, acc the finished tokens.
RECURSIVE PosixScan(_, _, _, _, _)
PosixScan(s, i, mode, cur, acc) ==
    IF i > Len(s)
    THEN IF mode = "delim" THEN acc ELSE Append(acc, cur)
    ELSE LET c == s[i] IN
         CASE mode = "squote" ->
                IF c = "'" THEN PosixScan(s, i + 1, "word", cur, acc)
                ELSE PosixScan(s, i + 1, "squote", Append(cur, c), acc)
           [] mode = "dquote" ->
                IF c = "\"" THEN PosixScan(s, i + 1, "word", cur, acc)
                ELSE IF c = "\\"
                THEN IF i + 1 > Len(s)
                     THEN PosixScan(s, i + 1, "dquote", cur, acc)
                     ELSE PosixScan(s, i + 2, "dquote", Append(cur, s[i + 1]), acc)
                ELSE PosixScan(s, i + 1, "dquote", Append(cur, c), acc)
           [] OTHER ->
                IF IsSpace(c)
                THEN IF mode = "delim" THEN PosixScan(s, i + 1, "delim", cur, acc)
                     ELSE PosixScan(s, i + 1, "delim", <<>>, Append(acc, cur))
                ELSE IF c = "'" THEN PosixScan(s, i + 1, "squote", cur, acc)
                ELSE IF c = "\"" THEN PosixScan(s, i + 1, "dquote", cur, acc)
                ELSE IF c = "\\"
                THEN IF i + 1 > Len(s)
                     THEN PosixScan(s, i + 1, "word", cur, acc)
                     ELSE PosixScan(s, i + 2, "word", Append(cur, s[i + 1]), acc)
                ELSE PosixScan(s, i + 1, "word", Append(cur, c), acc)

parse_posix(s) == PosixScan(s, 1, "delim", <<>>, <<>>)

(* ------------------------------ decoding ------------------------------- *)

Replacement == 65533

\* String::from_utf8_lossy on streams of ASCII bytes, two-byte lead bytes
\* (C2..DF), continuation bytes (80..BF) and bytes that start nothing: a
\* well-formed sequence gives its code point, every other byte U+FFFD.
RECURSIVE from_utf8_lossy(_)
from_utf8_lossy(b) ==
    IF b = <<>> THEN <<>>
    ELSE IF b[1] < 128 THEN <<b[1]>> \o from_utf8_lossy(Tail(b))
    ELSE IF b[1] \in 194..223 /\ Len(b) >= 2 /\ b[2] \in 128..191
    THEN <<(b[1] - 192) * 64 + (b[2] - 128)>> \o from_utf8_lossy(Tail(Tail(b)))
    ELSE <<Replacement>> \o from_utf8_lossy(Tail(b))

(* ------------------------------ data model ----------------------------- *)

\* Output::default()
DefaultOutput == [stdout |-> <<>>, stderr |-> <<>>]

\* no Output at all (Error::Io and the caller's errors carry none)
NoOutput == [stdout |-> <<-1>>, stderr |-> <<-1>>]

NoResult == [kind |-> "None", status |-> NoStatus, output |-> NoOutput, err |-> NoErr]

RunOk_Swapped(o) ==
    [kind |-> "Ok", status |-> NoStatus, err |-> NoErr,
     output |-> [stdout |-> from_utf8_lossy(o.stderr),
                 stderr |-> from_utf8_lossy(o.stdout)]]

\* run: Ok(Output { stdout: from_utf8_lossy(&o.stdout), stderr: .. })
RunOk(o) ==
    [kind |-> "Ok", status |-> NoStatus, err |-> NoErr,
     output |-> [stdout |-> from_utf8_lossy(o.stdout),
                 stderr |-> from_utf8_lossy(o.stderr)]]

\* run_with_stdin: Ok(Output { stdout: from_utf8_lossy(&o.stdout), stderr: .. })
StdinOk(o) ==
    [kind |-> "Ok", status |-> NoStatus, err |-> NoErr,
     output |-> [stdout |-> from_utf8_lossy(o.stdout),
                 stderr |-> from_utf8_lossy(o.stderr)]]

\* the caller's own Err(e), passed through by `?`
CallerResult(e) ==
    [kind |-> "Caller", status |-> NoStatus, output |-> NoOutput, err |-> e]

\* checked_command::Error values
CheckedIo(e) == [tag |-> "Io", err |-> e, status |-> NoStatus, some |-> FALSE,
                 raw |-> [stdout |-> <<>>, stderr |-> <<>>]]
CheckedFailure(st, o) == [tag |-> "Failure", err |-> NoErr, status |-> st,
                          some |-> TRUE, raw |-> o]

\* the captured output dropped: Output::default() whatever was captured
FromCheckedError_DropsOutput(error) ==
    IF error.tag = "Io"
    THEN [kind |-> "Io", status |-> NoStatus, output |-> NoOutput, err |-> error.err]
    ELSE [kind |-> "Failure", status |-> error.status, output |-> DefaultOutput,
          err |-> NoErr]

\* the I/O arm taken for a process failure too: Failure with no output
FromCheckedError_IoAsFailure(error) ==
    [kind |-> "Failure", status |-> error.status,
     output |-> IF error.some
                THEN [stdout |-> from_utf8_lossy(error.raw.stdout),
                      stderr |-> from_utf8_lossy(error.raw.stderr)]
                ELSE DefaultOutput,
     err |-> NoErr]

\* impl From<checked_command::Error> for Error
FromCheckedError(error) ==
    IF error.tag = "Io"
    THEN [kind |-> "Io", status |-> NoStatus, output |-> NoOutput, err |-> error.err]
    ELSE [kind |-> "Failure", status |-> error.status,
          output |-> IF error.some
                     THEN [stdout |-> from_utf8_lossy(error.raw.stdout),
                           stderr |-> from_utf8_lossy(error.raw.stderr)]
                     ELSE DefaultOutput,
          err |-> NoErr]

\* ExitStatus::success
Success(st) == st = "exit(0)"

\* checked_command's check of a finished child: a successful status gives
\* Ok(output), any other Err(Error::Failure(status, Some(output)))
CheckedOutput(st, o) ==
    IF Success(st)
    THEN [tag |-> "Ok", err |-> NoErr, status |-> NoStatus, some |-> TRUE, raw |-> o]
    ELSE CheckedFailure(st, o)

\* unwrap_or_default in place of unwrap: no token gives an empty program name
setup_process_NoUnwrap(c) ==
    LET args == parse_posix(c)
    IN  [panicked |-> FALSE,
         program  |-> IF args = <<>> THEN <<>> ELSE Head(args),
         args     |-> IF args = <<>> THEN <<>> ELSE Tail(args)]

\* the iterator not advanced past the program name: it is passed again as
\* the first argument
setup_process_ProgramAsArg(c) ==
    LET args == parse_posix(c)
    IN  [panicked |-> args = <<>>,
         program  |-> IF args = <<>> THEN <<>> ELSE Head(args),
         args     |-> args]

\* setup_process: the first token is the program, the rest its arguments;
\* args.next().unwrap() panics when there is no token
setup_process(c) ==
    LET args == parse_posix(c)
    IN  [panicked |-> args = <<>>,
         program  |-> IF args = <<>> THEN <<>> ELSE Head(args),
         args     |-> IF args = <<>> THEN <<>> ELSE Tail(args)]

NoCommand == [panicked |-> FALSE, program |-> <<"-">>, args |-> <<>>]

(* ------------------------------ state ---------------------------------- *)

VARIABLES
    api,        \* "run" or "run_with_stdin"
    cmd,        \* the command string passed in
    pc,         \* where the run is: Created, Spawned, WritingStdin, Waiting,
                \* or how it ended: Succeeded, ProcessFailed, IoFailed,
                \* CallerFailed (the caller's Err returned), Panicked
    p,          \* the CheckedCommand built by setup_process
    cfg,        \* how the child's three streams are set up at spawn
    result,     \* the value returned to the caller
    attempts,   \* spawns attempted
    fCalls,     \* invocations of the caller's function
    fRet,       \* what the caller's function returned: "Ok" or its error
    osErr,      \* the error the operating system raised, if any
    inLeft,     \* bytes the caller's function still has to write
    sent,       \* bytes the caller's function wrote to the stdin handle
    gotOut,     \* stdout bytes collected by the parent
    gotErr,     \* stderr bytes collected by the parent
    cstate,     \* the child: "none", "running", "exited"
    argv,       \* the argument vector the child was started with
    prog,       \* what the started program does
    status,     \* the child's exit status
    outLeft,    \* bytes the child still has to write to stdout
    errLeft,    \* bytes the child still has to write to stderr
    childRead,  \* bytes the child read from its stdin
    sawEOF,     \* the child read end-of-file on its stdin
    wroteOut,   \* bytes the child wrote to stdout
    wroteErr,   \* bytes the child wrote to stderr
    stdinPipe,  \* bytes in flight on the three pipes
    stdinOpen,  \* the parent holds the write end of the child's stdin
    stdoutPipe,
    stderrPipe

parentVars == <<api, cmd, pc, p, cfg, result, attempts, fCalls, fRet, osErr, inLeft,
                sent, gotOut, gotErr>>
childVars == <<cstate, argv, prog, status, outLeft, errLeft, childRead, sawEOF,
               wroteOut, wroteErr>>
pipeVars == <<stdinPipe, stdinOpen, stdoutPipe, stderrPipe>>
vars == <<parentVars, childVars, pipeVars>>

Terminal == {"Succeeded", "ProcessFailed", "IoFailed"}
Ended == pc \in Terminal \cup {"CallerFailed", "Panicked"}

NoCfg == [stdin |-> "unset", stdout |-> "unset", stderr |-> "unset"]

\* run: Command::output pipes all three streams.
\* run_with_stdin: cmd.stdin(Stdio::piped()).stdout(Stdio::piped()), and
\* spawn leaves a stream that was not configured inherited from the parent.
StdioFor(a) ==
    IF a = "run"
    THEN [stdin |-> "piped", stdout |-> "piped", stderr |-> "piped"]
    ELSE [stdin |-> "piped", stdout |-> "piped", stderr |-> "inherit"]

InitWith(commands) ==
    /\ api \in {"run", "run_with_stdin"}
    /\ cmd \in commands
    /\ pc = "Created"
    /\ p = NoCommand
    /\ cfg = NoCfg
    /\ result = NoResult
    /\ attempts = 0
    /\ fCalls = 0
    /\ fRet = "none"
    /\ osErr = NoErr
    /\ inLeft = 0
    /\ sent = <<>>
    /\ gotOut = <<>>
    /\ gotErr = <<>>
    /\ cstate = "none"
    /\ argv = <<>>
    /\ prog = "none"
    /\ status = NoStatus
    /\ outLeft = 0
    /\ errLeft = 0
    /\ childRead = <<>>
    /\ sawEOF = FALSE
    /\ wroteOut = <<>>
    /\ wroteErr = <<>>
    /\ stdinPipe = <<>>
    /\ stdinOpen = FALSE
    /\ stdoutPipe = <<>>
    /\ stderrPipe = <<>>

Init == InitWith(RunCommands)

(* ------------------------------ the parent ----------------------------- *)

\* setup_process unwraps the first token of an empty token list: the call
\* aborts before anything is spawned
Panic ==
    /\ pc = "Created"
    /\ setup_process(cmd).panicked
    /\ pc' = "Panicked"
    /\ UNCHANGED <<api, cmd, p, cfg, result, attempts, fCalls, fRet, osErr, inLeft,
                   sent, gotOut, gotErr>>
    /\ UNCHANGED <<childVars, pipeVars>>

\* the child is started: program and arguments as setup_process built them
SpawnOk(program, nOut, nErr) ==
    /\ pc = "Created"
    /\ ~setup_process(cmd).panicked
    /\ p' = setup_process(cmd)
    /\ cfg' = StdioFor(api)
    /\ attempts' = attempts + 1
    /\ pc' = "Spawned"
    /\ cstate' = "running"
    /\ argv' = <<p'.program>> \o p'.args
    /\ prog' = program
    /\ outLeft' = IF program = "emit" THEN nOut ELSE 0
    /\ errLeft' = IF program = "emit" THEN nErr ELSE 0
    /\ stdinOpen' = TRUE
    /\ UNCHANGED <<api, cmd, result, fCalls, fRet, osErr, inLeft, sent, gotOut, gotErr>>
    /\ UNCHANGED <<status, childRead, sawEOF, wroteOut, wroteErr>>
    /\ UNCHANGED <<stdinPipe, stdoutPipe, stderrPipe>>

\* the operating system refuses to start the program: `?` returns the
\* converted error at once
SpawnFail(e) ==
    /\ pc = "Created"
    /\ ~setup_process(cmd).panicked
    /\ p' = setup_process(cmd)
    /\ cfg' = StdioFor(api)
    /\ attempts' = attempts + 1
    /\ osErr' = e
    /\ result' = FromCheckedError(CheckedIo(e))
    /\ pc' = "IoFailed"
    /\ UNCHANGED <<api, cmd, fCalls, fRet, inLeft, sent, gotOut, gotErr>>
    /\ UNCHANGED <<childVars, pipeVars>>

\* run: Command::output goes on to wait for the child it spawned, closing
\* the stdin it never writes
RunWait ==
    /\ api = "run"
    /\ pc = "Spawned"
    /\ pc' = "Waiting"
    /\ stdinOpen' = FALSE
    /\ UNCHANGED <<api, cmd, p, cfg, result, attempts, fCalls, fRet, osErr, inLeft,
                   sent, gotOut, gotErr>>
    /\ UNCHANGED <<childVars, stdinPipe, stdoutPipe, stderrPipe>>

\* the stdin handle taken out of the child and dropped before f runs
CallF_DropsStdin(n) ==
    /\ api = "run_with_stdin"
    /\ pc = "Spawned"
    /\ pc' = "WritingStdin"
    /\ fCalls' = fCalls + 1
    /\ inLeft' = n
    /\ stdinOpen' = FALSE
    /\ UNCHANGED <<api, cmd, p, cfg, result, attempts, fRet, osErr, sent, gotOut,
                   gotErr>>
    /\ UNCHANGED <<childVars, stdinPipe, stdoutPipe, stderrPipe>>

\* run_with_stdin: f(stdin) is entered; n is how much it sets out to write
CallF(n) ==
    /\ api = "run_with_stdin"
    /\ pc = "Spawned"
    /\ pc' = "WritingStdin"
    /\ fCalls' = fCalls + 1
    /\ inLeft' = n
    /\ UNCHANGED <<api, cmd, p, cfg, result, attempts, fRet, osErr, sent, gotOut,
                   gotErr>>
    /\ UNCHANGED <<childVars, pipeVars>>

\* a write of the caller's function onto the stdin pipe; it blocks while
\* the pipe is full
FWrite(b) ==
    /\ pc = "WritingStdin"
    /\ inLeft > 0
    /\ stdinOpen
    /\ cstate = "running"
    /\ Len(stdinPipe) < StdinCap
    /\ stdinPipe' = Append(stdinPipe, b)
    /\ sent' = Append(sent, b)
    /\ inLeft' = inLeft - 1
    /\ UNCHANGED <<api, cmd, pc, p, cfg, result, attempts, fCalls, fRet, osErr,
                   gotOut, gotErr>>
    /\ UNCHANGED <<childVars, stdinOpen, stdoutPipe, stderrPipe>>

\* the child is gone: the write fails (broken pipe) and writes nothing
FWriteFails ==
    /\ pc = "WritingStdin"
    /\ inLeft > 0
    /\ cstate = "exited"
    /\ inLeft' = 0
    /\ UNCHANGED <<api, cmd, pc, p, cfg, result, attempts, fCalls, fRet, osErr, sent,
                   gotOut, gotErr>>
    /\ UNCHANGED <<childVars, pipeVars>>

\* the child waited for with its stdin still held open
FReturnOk_KeepsStdin ==
    /\ pc = "WritingStdin"
    /\ inLeft = 0
    /\ fRet' = "Ok"
    /\ pc' = "Waiting"
    /\ UNCHANGED <<api, cmd, p, cfg, result, attempts, fCalls, osErr, inLeft,
                   sent, gotOut, gotErr>>
    /\ UNCHANGED <<childVars, pipeVars>>

\* f returned Ok(()): child.wait_with_output() closes the child's stdin and
\* starts collecting
FReturnOk ==
    /\ pc = "WritingStdin"
    /\ inLeft = 0
    /\ fRet' = "Ok"
    /\ pc' = "Waiting"
    /\ stdinOpen' = FALSE
    /\ UNCHANGED <<api, cmd, p, cfg, result, attempts, fCalls, osErr, inLeft,
                   sent, gotOut, gotErr>>
    /\ UNCHANGED <<childVars, stdinPipe, stdoutPipe, stderrPipe>>

\* the result of f not looked at before the wait: the error is kept for
\* later and the child is waited for first
FReturnErr_WaitsFirst(e) ==
    /\ pc = "WritingStdin"
    /\ inLeft = 0
    /\ fRet' = e
    /\ pc' = "Waiting"
    /\ stdinOpen' = FALSE
    /\ UNCHANGED <<api, cmd, p, cfg, result, attempts, fCalls, osErr, inLeft,
                   sent, gotOut, gotErr>>
    /\ UNCHANGED <<childVars, stdinPipe, stdoutPipe, stderrPipe>>

\* f returned Err(e): `?` returns it; the child handle is dropped, which
\* closes the pipes and neither kills nor waits for the child
FReturnErr(e) ==
    /\ pc = "WritingStdin"
    /\ inLeft = 0
    /\ fRet' = e
    /\ pc' = "CallerFailed"
    /\ result' = CallerResult(e)
    /\ stdinOpen' = FALSE
    /\ UNCHANGED <<api, cmd, p, cfg, attempts, fCalls, osErr, inLeft, sent,
                   gotOut, gotErr>>
    /\ UNCHANGED <<childVars, stdinPipe, stdoutPipe, stderrPipe>>

\* the waiting parent reads what the child's captured streams hold
DrainOut ==
    /\ pc = "Waiting"
    /\ cfg.stdout = "piped"
    /\ stdoutPipe # <<>>
    /\ gotOut' = Append(gotOut, Head(stdoutPipe))
    /\ stdoutPipe' = Tail(stdoutPipe)
    /\ UNCHANGED <<api, cmd, pc, p, cfg, result, attempts, fCalls, fRet, osErr,
                   inLeft, sent, gotErr>>
    /\ UNCHANGED <<childVars, stdinPipe, stdinOpen, stderrPipe>>

DrainErr ==
    /\ pc = "Waiting"
    /\ cfg.stderr = "piped"
    /\ stderrPipe # <<>>
    /\ gotErr' = Append(gotErr, Head(stderrPipe))
    /\ stderrPipe' = Tail(stderrPipe)
    /\ UNCHANGED <<api, cmd, pc, p, cfg, result, attempts, fCalls, fRet, osErr,
                   inLeft, sent, gotOut>>
    /\ UNCHANGED <<childVars, stdinPipe, stdinOpen, stdoutPipe>>

\* a failed wait tried again from the start
WaitFail_Retries(e) ==
    /\ pc = "Waiting"
    /\ attempts < 2
    /\ osErr' = e
    /\ pc' = "Created"
    /\ UNCHANGED <<api, cmd, p, cfg, result, attempts, fCalls, fRet, inLeft, sent,
                   gotOut, gotErr>>
    /\ UNCHANGED <<childVars, pipeVars>>

\* the wait itself fails in the operating system
WaitFail(e) ==
    /\ pc = "Waiting"
    /\ osErr' = e
    /\ result' = FromCheckedError(CheckedIo(e))
    /\ pc' = "IoFailed"
    /\ UNCHANGED <<api, cmd, p, cfg, attempts, fCalls, fRet, inLeft, sent, gotOut, gotErr>>
    /\ UNCHANGED <<childVars, pipeVars>>

StateOf(r) ==
    IF r.kind = "Ok" THEN "Succeeded"
    ELSE IF r.kind = "Failure" THEN "ProcessFailed"
    ELSE "IoFailed"

\* the child has exited and its captured streams are read to the end: the
\* exit status decides between Ok(Output) and Error::Failure
FinishWait ==
    /\ pc = "Waiting"
    /\ cstate = "exited"
    /\ stdoutPipe = <<>>
    /\ cfg.stderr = "piped" => stderrPipe = <<>>
    /\ LET o == CheckedOutput(status, [stdout |-> gotOut, stderr |-> gotErr])
       IN  result' = IF o.tag # "Ok" THEN FromCheckedError(o)
                     ELSE IF api = "run" THEN RunOk(o.raw)
                     ELSE StdinOk(o.raw)
    /\ pc' = StateOf(result')
    /\ UNCHANGED <<api, cmd, p, cfg, attempts, fCalls, fRet, osErr, inLeft, sent,
                   gotOut, gotErr>>
    /\ UNCHANGED <<childVars, pipeVars>>

(* ------------------------------ the child ------------------------------ *)

\* cat and rev read their stdin; cat owes one byte of output for each byte
\* read and reads on only when it has written it
ChildRead ==
    /\ ~Ended
    /\ cstate = "running"
    /\ prog \in {"cat", "rev"}
    /\ outLeft = 0
    /\ ~sawEOF
    /\ stdinPipe # <<>>
    /\ childRead' = Append(childRead, Head(stdinPipe))
    /\ stdinPipe' = Tail(stdinPipe)
    /\ outLeft' = IF prog = "cat" THEN 1 ELSE 0
    /\ UNCHANGED <<cstate, argv, prog, status, errLeft, sawEOF, wroteOut, wroteErr>>
    /\ UNCHANGED <<parentVars, stdinOpen, stdoutPipe, stderrPipe>>

ChildEOF ==
    /\ ~Ended
    /\ cstate = "running"
    /\ prog \in {"cat", "rev"}
    /\ outLeft = 0
    /\ ~sawEOF
    /\ stdinPipe = <<>>
    /\ ~stdinOpen
    /\ sawEOF' = TRUE
    /\ outLeft' = IF prog = "rev" THEN Len(childRead) ELSE 0
    /\ UNCHANGED <<cstate, argv, prog, status, errLeft, childRead, wroteOut, wroteErr>>
    /\ UNCHANGED <<parentVars, pipeVars>>

\* the byte the program writes next: rev its input backwards, cat the
\* byte it has just read, emit any
NextOut ==
    IF prog = "rev" THEN {Reverse(childRead)[Len(childRead) - outLeft + 1]}
    ELSE IF prog = "cat" THEN {childRead[Len(childRead)]}
    ELSE Bytes

ChildWriteOut(b) ==
    /\ ~Ended
    /\ cstate = "running"
    /\ outLeft > 0
    /\ b \in NextOut
    /\ Len(stdoutPipe) < StdoutCap
    /\ stdoutPipe' = Append(stdoutPipe, b)
    /\ wroteOut' = Append(wroteOut, b)
    /\ outLeft' = outLeft - 1
    /\ UNCHANGED <<cstate, argv, prog, status, errLeft, childRead, sawEOF, wroteErr>>
    /\ UNCHANGED <<parentVars, stdinPipe, stdinOpen, stderrPipe>>

\* an inherited stderr goes to the parent's own stderr and never blocks
ChildWriteErr(b) ==
    /\ ~Ended
    /\ cstate = "running"
    /\ errLeft > 0
    /\ IF cfg.stderr = "piped"
       THEN /\ Len(stderrPipe) < StderrCap
            /\ stderrPipe' = Append(stderrPipe, b)
       ELSE UNCHANGED stderrPipe
    /\ wroteErr' = Append(wroteErr, b)
    /\ errLeft' = errLeft - 1
    /\ UNCHANGED <<cstate, argv, prog, status, outLeft, childRead, sawEOF, wroteOut>>
    /\ UNCHANGED <<parentVars, stdinPipe, stdinOpen, stdoutPipe>>

ChildExit(st) ==
    /\ ~Ended
    /\ cstate = "running"
    /\ outLeft = 0
    /\ errLeft = 0
    /\ prog \in {"cat", "rev"} => sawEOF /\ st = "exit(0)"
    /\ cstate' = "exited"
    /\ status' = st
    /\ UNCHANGED <<argv, prog, outLeft, errLeft, childRead, sawEOF, wroteOut, wroteErr>>
    /\ UNCHANGED <<parentVars, pipeVars>>

(* ------------------------------ behaviours ----------------------------- *)

\* the steps the caller's thread takes of itself, the bytes of the caller's
\* function drawn from B
Progress(B) ==
    \/ Panic
    \/ \E program \in Programs, nOut \in 0..MaxOut, nErr \in 0..MaxErr :
          SpawnOk(program, nOut, nErr)
    \/ \E e \in SpawnErrors : SpawnFail(e)
    \/ RunWait
    \/ \E n \in 0..MaxIn : CallF(n)
    \/ \E b \in B : FWrite(b)
    \/ FWriteFails
    \/ FReturnOk
    \/ \E e \in CallerErrors : FReturnErr(e)
    \/ DrainOut
    \/ DrainErr
    \/ FinishWait

\* a failing wait is the operating system's doing: it may happen
Parent(B) ==
    \/ Progress(B)
    \/ \E e \in WaitErrors : WaitFail(e)

Child(B) ==
    \/ ChildRead
    \/ ChildEOF
    \/ \E b \in B : ChildWriteOut(b)
    \/ \E b \in B : ChildWriteErr(b)
    \/ \E st \in Statuses : ChildExit(st)

Next == Parent(Bytes) \/ Child(Bytes)

Spec == Init /\ [][Next]_vars

\* the flow of bytes through the pipes whatever the bytes are: one byte
\* value, and the caller's thread runs on while the operating system
\* schedules the child; nothing obliges a wait to fail
PipeBytes == {65}

PipeNext == Parent(PipeBytes) \/ Child(PipeBytes)

PipeSpec ==
    /\ Init
    /\ [][PipeNext]_vars
    /\ WF_vars(Progress(PipeBytes))
    /\ WF_vars(Child(PipeBytes))

\* setup_process and the spawn alone, over every short command string
SetupInit == InitWith(SeqsUpTo(Chars, MaxCmdLen))

SetupNext ==
    \/ Panic
    \/ SpawnOk("emit", 0, 0)
    \/ \E e \in SpawnErrors : SpawnFail(e)

SetupSpec == SetupInit /\ [][SetupNext]_vars

(* ------------------------------ properties ----------------------------- *)

Tokens == parse_posix(cmd)

\* the run returned with the child's exit status in hand: the child ran to
\* completion and the operating system raised no error
Completed == Ended /\ cstate = "exited" /\ osErr = NoErr /\ fRet \in {"none", "Ok"}

\* C1: when the child of run exits with a successful status, run returns
\* Ok(Output), never an Error, and stdout and stderr of the Output are the
\* lossy decodings of exactly the bytes the child wrote to each stream.
C1_RunSuccess ==
    (api = "run" /\ Completed /\ Success(status)) =>
        /\ pc = "Succeeded"
        /\ result.kind = "Ok"
        /\ result.output.stdout = from_utf8_lossy(wroteOut)
        /\ result.output.stderr = from_utf8_lossy(wroteErr)

\* a successful run whose child wrote U+00E9 to stdout and a stray
\* continuation byte to stderr
C1_Witness ==
    /\ api = "run"
    /\ pc = "Succeeded"
    /\ wroteOut = <<195, 169>>
    /\ wroteErr = <<169>>
    /\ result.output = [stdout |-> <<233>>, stderr |-> <<Replacement>>]

\* C2: when the child of run runs to completion with an unsuccessful status
\* (non-zero code or signal), run returns Error::Failure(status, output),
\* never Ok or Error::Io, with the child's own status and the lossy
\* decodings of what it wrote to each stream.
C2_RunFailure ==
    (api = "run" /\ Completed /\ ~Success(status)) =>
        /\ pc = "ProcessFailed"
        /\ result.kind = "Failure"
        /\ result.status = status
        /\ result.output.stdout = from_utf8_lossy(wroteOut)
        /\ result.output.stderr = from_utf8_lossy(wroteErr)

\* a run killed by a signal after it wrote to both streams
C2_Witness ==
    /\ api = "run"
    /\ pc = "ProcessFailed"
    /\ status = "signal(9)"
    /\ wroteOut = <<65, 195>>
    /\ wroteErr = <<65>>
    /\ result.output = [stdout |-> <<65, Replacement>>, stderr |-> <<65>>]

\* C3: when spawning or waiting fails in the operating system, run returns
\* Error::Io wrapping that very error, no Output is produced, and the spawn
\* was attempted exactly once.
C3_RunIoFailure ==
    (api = "run" /\ osErr # NoErr) =>
        /\ pc = "IoFailed"
        /\ result.kind = "Io"
        /\ result.err = osErr
        /\ result.output = NoOutput
        /\ attempts = 1

\* the program does not exist: nothing was started
C3_Witness ==
    /\ api = "run"
    /\ pc = "IoFailed"
    /\ osErr = "NotFound"
    /\ cstate = "none"

\* C4: in run_with_stdin the bytes the child reads before end-of-file are
\* exactly the bytes the caller's function wrote, in write order (what was
\* written is at every moment what the child has read followed by what the
\* pipe still holds), and the child sees end-of-file only after the
\* caller's function has returned.
C4_StdinDelivery ==
    api = "run_with_stdin" =>
        /\ sent = childRead \o stdinPipe
        /\ sawEOF => /\ childRead = sent
                     /\ fRet # "none"
                     /\ pc \notin {"Created", "Spawned", "WritingStdin"}

\* the child has read three bytes, not all alike, and then end-of-file
C4_Witness ==
    /\ api = "run_with_stdin"
    /\ sawEOF
    /\ childRead = <<65, 195, 169>>

\* C5: if the caller's function returns Err(e), run_with_stdin returns that
\* same Err(e) at once: the child is not waited for, nothing is collected,
\* and e is not replaced by an Error::Io or Error::Failure.
C5_CallerError ==
    /\ fRet \in CallerErrors =>
          /\ pc = "CallerFailed"
          /\ result = CallerResult(fRet)
          /\ gotOut = <<>>
          /\ gotErr = <<>>
    /\ pc = "CallerFailed" => fRet \in CallerErrors

\* the call has returned the caller's error while the child is still
\* running with output nobody collected
C5_Witness ==
    /\ pc = "CallerFailed"
    /\ result.err = "AppError"
    /\ cstate = "running"
    /\ stdoutPipe # <<>>

\* C6: when the caller's function succeeds, run_with_stdin classifies the
\* result as run does (successful status: Ok(Output), otherwise
\* Error::Failure(status, Output)) and the Output is the lossy decoding of
\* everything the child wrote to stdout and to stderr.
C6_StdinFullOutput ==
    (api = "run_with_stdin" /\ Completed) =>
        /\ pc = IF Success(status) THEN "Succeeded" ELSE "ProcessFailed"
        /\ result.kind = IF Success(status) THEN "Ok" ELSE "Failure"
        /\ result.output.stdout = from_utf8_lossy(wroteOut)
        /\ result.output.stderr = from_utf8_lossy(wroteErr)

\* the moves the state machine of a run is said to make
ClaimedEdges ==
    {<<"Created", "Spawned">>, <<"WritingStdin", "Waiting">>}
    \cup (IF api = "run" THEN {<<"Spawned", "Waiting">>}
          ELSE {<<"Spawned", "WritingStdin">>})
    \cup {<<"Waiting", t>> : t \in Terminal}

\* the moves it makes besides: a spawn that fails, the panic on a command
\* without tokens, the caller's function returning an error
OtherEdges ==
    {<<"Created", "IoFailed">>, <<"Created", "Panicked">>,
     <<"WritingStdin", "CallerFailed">>}

\* the caller's function is invoked once, on leaving Spawned
FOnlyAfterSpawn ==
    fCalls' # fCalls =>
        /\ pc = "Spawned"
        /\ pc' = "WritingStdin"
        /\ attempts = 1
        /\ fCalls = 0

\* C7, as stated: a run moves only along Created -> Spawned -> WritingStdin
\* (run_with_stdin only) -> Waiting -> Succeeded | ProcessFailed | IoFailed,
\* skipping and revisiting nothing, the caller's function is invoked only
\* between the spawn and the wait, and a run that ended stays as it is.
C7_ClaimedStateMachine ==
    [][/\ pc' # pc => <<pc, pc'>> \in ClaimedEdges
       /\ FOnlyAfterSpawn
       /\ Ended => UNCHANGED vars]_vars

\* C7, amended: the same, except that a failed spawn goes from Created
\* straight to IoFailed, a command without tokens panics in Created, and an
\* Err from the caller's function ends the run in WritingStdin with that
\* error, outside the three terminal states.
C7_StateMachine ==
    [][/\ pc' # pc => <<pc, pc'>> \in ClaimedEdges \cup OtherEdges
       /\ FOnlyAfterSpawn
       /\ Ended => UNCHANGED vars]_vars

\* a run_with_stdin that went the whole way: spawned, fed, waited, succeeded
C7_Witness ==
    /\ api = "run_with_stdin"
    /\ pc = "Succeeded"
    /\ fCalls = 1
    /\ sent # <<>>
    /\ gotOut # <<>>

\* C8: a command string with no tokens makes run and run_with_stdin panic
\* in setup_process before anything is spawned and before the caller's
\* function is invoked, yielding neither Output nor Error; every other run
\* that returns yields exactly one Ok(Output) or one error, and nothing
\* before it returns.
C8_EmptyCommand ==
    /\ Tokens = <<>> =>
          /\ pc \in {"Created", "Panicked"}
          /\ attempts = 0
          /\ fCalls = 0
          /\ cstate = "none"
          /\ result = NoResult
    /\ Tokens # <<>> =>
          /\ pc # "Panicked"
          /\ ~Ended => result = NoResult
          /\ Ended => /\ result.kind \in {"Ok", "Failure", "Io", "Caller"}
                      /\ result.kind = "Ok" <=> (result.err = NoErr /\ result.status = NoStatus)
                      /\ result.kind = "Ok" => result.output # NoOutput
                      /\ result.kind \in {"Io", "Caller"} =>
                            result.output = NoOutput /\ result.err # NoErr

\* a blank command string has panicked
C8_Witness ==
    /\ cmd = <<" ">>
    /\ pc = "Panicked"

\* caller and child wait on each other: the caller's function has more to
\* write and the stdin pipe is full, the child has output to write and the
\* stdout pipe is full, and nobody reads either pipe
Deadlocked ==
    /\ api = "run_with_stdin"
    /\ pc = "WritingStdin"
    /\ inLeft > 0
    /\ Len(stdinPipe) = StdinCap
    /\ cstate = "running"
    /\ outLeft > 0
    /\ Len(stdoutPipe) = StdoutCap
    /\ errLeft = 0

\* C9: with bounded pipes run_with_stdin can deadlock: once the caller's
\* function is blocked on a full stdin pipe while the child is blocked on a
\* full stdout pipe, no step of either is possible and the run never ends; and
\* every run that does not get there ends, in particular every run whose
\* child exits.
C9_DeadlockOrEnd ==
    /\ [](Deadlocked => ~Ended /\ ~ENABLED Next)
    /\ <>(Ended \/ Deadlocked)
    /\ (cstate = "exited") ~> Ended

\* cat, a child that does read its stdin, stuck on its full stdout pipe
\* while the caller's function is stuck on the full stdin pipe
C9_Witness ==
    /\ Deadlocked
    /\ prog = "cat"
    /\ childRead # <<>>

\* a quoted argument: the program name a, a blank, and a body between two
\* quotes q that holds neither q nor a backslash
QuotedArg(c, q) ==
    /\ Len(c) >= 4
    /\ c[1] = "a" /\ c[2] = " " /\ c[3] = q /\ c[Len(c)] = q
    /\ \A i \in 4..(Len(c) - 1) : c[i] \notin {q, "\\"}

\* C10: the child is started with the tokenizer's tokens unchanged and in
\* order, the first as the program and the others as its arguments; an
\* argument quoted with blanks inside arrives as one argument, and | is
\* argument text like any other.
C10_ArgvIsTokens ==
    cstate = "running" =>
        /\ argv = Tokens
        /\ p.program = Tokens[1]
        /\ Len(p.args) = Len(Tokens) - 1
        /\ \A i \in 1..Len(p.args) : p.args[i] = Tokens[i + 1]
        /\ \A q \in {"'", "\""} :
              QuotedArg(cmd, q) => argv = <<<<"a">>, SubSeq(cmd, 4, Len(cmd) - 1)>>
        /\ cmd = <<"a", " ", "|", " ", "a">> => argv = <<<<"a">>, <<"|">>, <<"a">>>>

\* a double-quoted blank has reached the child as its one argument
C10_Witness ==
    /\ cstate = "running"
    /\ cmd = <<"a", " ", "\"", " ", "\"">>
    /\ argv = <<<<"a">>, <<" ">>>>

====
